---- MODULE Spec2Model ----
(***************************************************************************)
(* Course generation pipeline of src/api/routes/ai.py: the course-structure *)
(* worker (_generate_course_structure), the task fan-out                   *)
(* (generate_course_tasks), the task worker (generate_course_task) and the *)
(* two resume functions, over the job ledger, the module/task store and    *)
(* the progress notifier.  One course (course_id) and one course job       *)
(* (course_job_uuid) are modelled.  The second part models the assessment  *)
(* store of src/api/db/assessment.py (submissions, leaderboard) and the    *)
(* course links of src/api/db/role_assessment.py.                          *)
(***************************************************************************)
EXTENDS Integers, Sequences, FiniteSets, TLC

VARIABLES
    course_job,     \* the course_generation_jobs row: status and job_details["course_structure"]
    milestones,     \* module rows created by add_milestone_to_course
    draft_tasks,    \* task rows created by create_draft_task_for_course (+ generated content)
    events,         \* what websocket_manager.send_item_update was called with, in call order
    stream,         \* the provider's partial outline: what the next chunk of the stream holds
    grown,          \* how many times the provider's outline has grown in this run
    target,         \* the outline the provider is about to produce, or any outline at all
    sw,             \* the running _generate_course_structure invocation (locals and position)
    task_jobs,      \* the task_generation_jobs rows
    workers,        \* generate_course_task coroutines: queued, in flight or finished
    dispatch_budget, \* calls of generate_course_tasks the clients have still to make
    crash_budget,   \* process restarts still to come
    resume_todo,    \* resume functions the current boot has still to run
    resubmitted,    \* history: (kind, status) of every job a resume function re-invoked a worker for
    subscribed,     \* whether a client's websocket is connected to the course's channel
    submissions,    \* the assessment_submissions rows, by id
    question_responses, \* the question_responses rows, by id
    leaderboard_entries, \* the leaderboard_entries rows, by id
    requests,       \* the calls into api/db/assessment.py in progress: locals and position
    role_assessments, \* the role_assessments rows, by assessment_id
    course_assessments, \* the course_assessments rows, by id
    returned        \* what the last call of deploy/undeploy returned

vars == << course_job, milestones, draft_tasks, events, stream, grown, target, sw,
           task_jobs, workers, dispatch_budget, crash_budget, resume_todo, resubmitted,
           subscribed, submissions, question_responses, leaderboard_entries, requests,
           role_assessments, course_assessments, returned >>

AssessmentVars == << submissions, question_responses, leaderboard_entries, requests >>

DeployVars == << role_assessments, course_assessments, returned >>

(***************************************************************************)
(* Bounds of the model                                                     *)
(***************************************************************************)
MaxGrow == 4
MaxChunks == 3
MaxDispatch == 2
MaxCrashes == 1
MaxWrites == 2

(***************************************************************************)
(* Program constants                                                       *)
(***************************************************************************)
LEARNING_MATERIAL == "learning_material"
QUIZ == "quiz"
STARTED == "started"
PENDING == "pending"
COMPLETED == "completed"
FAILED == "failed"

course_id == 1
course_job_uuid == "J"

ValidTaskTypes == {LEARNING_MATERIAL, QUIZ}

\* Fixed size of the batch runner's pool of in-flight units
PoolSize == 2

(***************************************************************************)
(* Outlines: Output.modules -> Module.concepts -> Concept.tasks.  A field  *)
(* the stream has not filled yet is "" (name, type) or <<>> (a list).      *)
(***************************************************************************)
T1 == [name |-> "T1", type |-> LEARNING_MATERIAL]
T2 == [name |-> "T2", type |-> QUIZ]
T3 == [name |-> "T3", type |-> "exam"]

\* Tasks a provider may put into an outline: whole ones, and ones whose type
\* has not been streamed yet
TaskPool == {T1, T2, T3, [T1 EXCEPT !.type = ""], [T2 EXCEPT !.type = ""]}

ModuleName(index) == IF index = 0 THEN "Intro" ELSE "M"

\* Outline a is outline b cut short: b holds everything a holds
IsPrefix(a, b) == Len(a) <= Len(b) /\ \A i \in 1..Len(a) : a[i] = b[i]

OutlineBelow(a, b) ==
    /\ Len(a) <= Len(b)
    /\ \A i \in 1..Len(a) :
          /\ a[i].name = b[i].name
          /\ Len(a[i].concepts) <= Len(b[i].concepts)
          /\ \A c \in 1..Len(a[i].concepts) :
                IsPrefix(a[i].concepts[c].tasks, b[i].concepts[c].tasks)

(***************************************************************************)
(* _generate_course_structure: the locals module_ids and module_concepts,  *)
(* threaded with the rows and events the loop body creates.                *)
(* A loop state is [module_ids, module_concepts, milestones, draft_tasks,  *)
(* events].  Python indices are 0-based; TLA+ sequences are 1-based.       *)
(***************************************************************************)
NoConcepts == [c \in {} |-> << >>]
NoModules == [m \in {} |-> NoConcepts]

\* module_concepts[module_id]                    (defaultdict of defaultdict)
ConceptsOf(module_concepts, module_id) ==
    IF module_id \in DOMAIN module_concepts THEN module_concepts[module_id] ELSE NoConcepts

\* module_concepts[module_id][concept_index]     (defaultdict(list))
TaskIdsOf(module_concepts, module_id, concept_index) ==
    LET cs == ConceptsOf(module_concepts, module_id)
    IN IF concept_index \in DOMAIN cs THEN cs[concept_index] ELSE << >>

\* module_concepts[module_id][concept_index].append(task_id)
AppendTaskId(module_concepts, module_id, concept_index, task_id) ==
    LET cs == ConceptsOf(module_concepts, module_id)
        lst == Append(TaskIdsOf(module_concepts, module_id, concept_index), task_id)
        cs2 == [c \in DOMAIN cs \cup {concept_index} |-> IF c = concept_index THEN lst ELSE cs[c]]
    IN [m \in DOMAIN module_concepts \cup {module_id} |->
           IF m = module_id THEN cs2 ELSE module_concepts[m]]

\* Mutant: send_item_update raises when no client is connected
send_item_update_raises_WhenDisconnected(connected) == ~connected

\* Whether websocket_manager.send_item_update raises into its caller: it
\* does not, with a client connected or without
send_item_update_raises(connected) == FALSE

\* A call of websocket_manager.send_item_update(course_id, payload), with
\* whether a client was there to receive it
Event(name, id, total) ==
    [event |-> name, id |-> id, total_completed |-> total, delivered |-> subscribed]

\* add_milestone_to_course: the new row's id
NewModuleId(s) == Len(s.milestones) + 1

\* create_draft_task_for_course: the new row's id
NewTaskId(s) == Len(s.draft_tasks) + 1

\* add_generated_module, followed by module_ids.append(module_id)
\* (s.raised: an exception has left the loop, nothing after it runs, and
\* s.raised_by is the call that raised it; s.writes_left: the row insertions
\* that succeed before one raises, -1 for a store that does not fail)
add_generated_module(s, module, index) ==
    IF s.raised THEN s
    ELSE IF s.writes_left = 0 THEN [s EXCEPT !.raised = TRUE, !.raised_by = "store"]
    ELSE LET sent == [s EXCEPT !.writes_left = IF @ > 0 THEN @ - 1 ELSE @,
                               !.milestones = Append(@, [id |-> NewModuleId(s),
                                                        name |-> module.name,
                                                        of |-> << index >>]),
                               !.events = Append(@, Event("module_created",
                                                          NewModuleId(s), 0))]
         IN IF send_item_update_raises(subscribed)
            THEN [sent EXCEPT !.raised = TRUE, !.raised_by = "send"]
            ELSE [sent EXCEPT !.module_ids = Append(@, NewModuleId(s))]

\* add_generated_draft_task, followed by module_concepts[..][..].append(task_id)
add_generated_draft_task(s, module_id, task, index, concept_index, task_index) ==
    IF s.raised THEN s
    ELSE IF s.writes_left = 0 THEN [s EXCEPT !.raised = TRUE, !.raised_by = "store"]
    ELSE LET sent == [s EXCEPT !.writes_left = IF @ > 0 THEN @ - 1 ELSE @,
                               !.draft_tasks =
                                   Append(@, [id |-> NewTaskId(s), name |-> task.name,
                                              type |-> task.type, module_id |-> module_id,
                                              of |-> << index, concept_index, task_index >>,
                                              content |-> 0]),
                               !.events = Append(@, Event("task_created",
                                                          NewTaskId(s), 0))]
         IN IF send_item_update_raises(subscribed)
            THEN [sent EXCEPT !.raised = TRUE, !.raised_by = "send"]
            ELSE [sent EXCEPT !.module_concepts =
                                  AppendTaskId(@, module_id, concept_index, NewTaskId(s))]

\* Mutant: the task loop without its check of the ids already recorded
SkipTask_NoIndexCheck(s, module_id, concept_index, task, task_index) ==
    \/ task.name = ""
    \/ task.type = ""
    \/ task.type \notin ValidTaskTypes

\* The condition under which the task loop skips a task
SkipTask(s, module_id, concept_index, task, task_index) ==
    \/ task.name = ""
    \/ task.type = ""
    \/ task.type \notin ValidTaskTypes
    \/ task_index < Len(TaskIdsOf(s.module_concepts, module_id, concept_index))

RECURSIVE TaskLoop(_, _, _, _, _, _)
TaskLoop(s, module_id, index, concept_index, tasks, task_index) ==
    IF task_index >= Len(tasks) THEN s
    ELSE LET task == tasks[task_index + 1]
         IN IF SkipTask(s, module_id, concept_index, task, task_index)
            THEN TaskLoop(s, module_id, index, concept_index, tasks, task_index + 1)
            ELSE TaskLoop(add_generated_draft_task(s, module_id, task, index, concept_index,
                                                   task_index),
                          module_id, index, concept_index, tasks, task_index + 1)

\* The condition under which the concept loop skips a concept
SkipConcept(s, module_id, concept, concept_index) ==
    \/ concept.tasks = << >>
    \/ concept_index < Cardinality(DOMAIN ConceptsOf(s.module_concepts, module_id)) - 1

RECURSIVE ConceptLoop(_, _, _, _, _)
ConceptLoop(s, module_id, index, concepts, concept_index) ==
    IF concept_index >= Len(concepts) THEN s
    ELSE LET concept == concepts[concept_index + 1]
         IN IF SkipConcept(s, module_id, concept, concept_index)
            THEN ConceptLoop(s, module_id, index, concepts, concept_index + 1)
            ELSE ConceptLoop(TaskLoop(s, module_id, index, concept_index, concept.tasks, 0),
                             module_id, index, concepts, concept_index + 1)

\* The condition under which the module loop skips a module
SkipModule(module) == module.name = "" \/ module.concepts = << >>

\* Mutant: the module's row and event are made after its concept loop
RECURSIVE ModuleLoop_TasksFirst(_, _, _)
ModuleLoop_TasksFirst(s, modules, index) ==
    IF index >= Len(modules) THEN s
    ELSE LET module == modules[index + 1]
         IN IF SkipModule(module)
            THEN ModuleLoop_TasksFirst(s, modules, index + 1)
            ELSE LET module_id == IF index >= Len(s.module_ids)
                                  THEN NewModuleId(s)
                                  ELSE s.module_ids[index + 1]
                     s1 == ConceptLoop(s, module_id, index, module.concepts, 0)
                 IN ModuleLoop_TasksFirst(IF index >= Len(s.module_ids)
                                          THEN add_generated_module(s1, module, index)
                                          ELSE s1,
                                          modules, index + 1)

RECURSIVE ModuleLoop(_, _, _)
ModuleLoop(s, modules, index) ==
    IF index >= Len(modules) THEN s
    ELSE LET module == modules[index + 1]
         IN IF SkipModule(module)
            THEN ModuleLoop(s, modules, index + 1)
            ELSE LET s1 == IF index >= Len(s.module_ids)
                           THEN add_generated_module(s, module, index)
                           ELSE s
                     module_id == IF index >= Len(s.module_ids)
                                  THEN NewModuleId(s)
                                  ELSE s.module_ids[index + 1]
                 IN ModuleLoop(ConceptLoop(s1, module_id, index, module.concepts, 0),
                               modules, index + 1)

\* The body of `async for chunk in stream` for one chunk
ProcessChunk(s, chunk) == IF chunk = << >> THEN s ELSE ModuleLoop(s, chunk, 0)

\* Whether the id stamping after the stream finds every id it indexes
\* (module_ids[index], module_concepts[id][concept_index][task_index])
CanStamp(module_ids, module_concepts, output) ==
    /\ Len(output) <= Len(module_ids)
    /\ \A i \in 1..Len(output) :
          \A c \in 1..Len(output[i].concepts) :
              Len(output[i].concepts[c].tasks)
                  <= Len(TaskIdsOf(module_concepts, module_ids[i], c - 1))

\* output = chunk.model_dump() with module["id"] and task["id"] stamped
Stamped(module_ids, module_concepts, output) ==
    [i \in 1..Len(output) |->
        [name |-> output[i].name,
         id |-> module_ids[i],
         concepts |->
            [c \in 1..Len(output[i].concepts) |->
                [tasks |->
                    [t \in 1..Len(output[i].concepts[c].tasks) |->
                        [name |-> output[i].concepts[c].tasks[t].name,
                         type |-> output[i].concepts[c].tasks[t].type,
                         id |-> TaskIdsOf(module_concepts, module_ids[i], c - 1)[t]]]]]]]

(***************************************************************************)
(* The provider's stream (stream_llm_with_instructor): every chunk holds   *)
(* what the previous chunk held, and possibly more.                        *)
(***************************************************************************)
TypeOf(name) == IF name = "T1" THEN LEARNING_MATERIAL ELSE QUIZ

SetConcepts(outline, i, concepts) == [outline EXCEPT ![i].concepts = concepts]

SetTasks(outline, i, c, tasks) == [outline EXCEPT ![i].concepts[c].tasks = tasks]

\* The outlines one step larger than `outline`
Grow(outline) ==
    { Append(outline, [name |-> n, concepts |-> << >>]) : n \in {"", ModuleName(Len(outline))} }
    \cup { [outline EXCEPT ![i].name = ModuleName(i - 1)] :
              i \in {j \in 1..Len(outline) : outline[j].name = ""} }
    \cup { SetConcepts(outline, i, Append(outline[i].concepts, [tasks |-> << >>])) :
              i \in 1..Len(outline) }
    \cup UNION { UNION { { SetTasks(outline, i, c, Append(outline[i].concepts[c].tasks, t)) :
                              t \in TaskPool } :
                         c \in 1..Len(outline[i].concepts) } :
                 i \in 1..Len(outline) }
    \cup UNION { UNION { { [outline EXCEPT ![i].concepts[c].tasks[k].type =
                                TypeOf(outline[i].concepts[c].tasks[k].name)] :
                              k \in {j \in 1..Len(outline[i].concepts[c].tasks) :
                                        outline[i].concepts[c].tasks[j].type = ""} } :
                         c \in 1..Len(outline[i].concepts) } :
                 i \in 1..Len(outline) }

NoWorker == [pc |-> "idle", chunk |-> << >>, nchunks |-> 0,
             module_ids |-> << >>, module_concepts |-> NoModules, origin |-> "none",
             raised_by |-> "none"]

\* A fresh invocation of _generate_course_structure: module_ids = [],
\* module_concepts = defaultdict(...), the stream not yet read
NewStructureWorker(origin) == [NoWorker EXCEPT !.pc = "streaming", !.origin = origin]

\* The invocation past its loop: its locals are no longer read
Ended(pc) == [NoWorker EXCEPT !.pc = pc, !.origin = sw.origin]

\* Mutant: the worker catches the exception and returns normally
RaiseInStructure_Swallowed == Ended("done")

\* What an exception inside _generate_course_structure does: nothing in the
\* function catches it, so it leaves the coroutine to whatever awaits it
RaiseInStructure == Ended("raised")

LoopState == [module_ids |-> sw.module_ids, module_concepts |-> sw.module_concepts,
              milestones |-> milestones, draft_tasks |-> draft_tasks, events |-> events,
              raised |-> FALSE, raised_by |-> "none", writes_left |-> -1]

TaskVars == << task_jobs, workers, dispatch_budget >>
DbVars == << milestones, draft_tasks, events >>
BootVars == << crash_budget, resume_todo, resubmitted >>

\* POST /generate/course/{course_id}/structure: store_course_generation_request
\* records the job, the worker is added as a background task
generate_course_structure ==
    /\ course_job.status = "none"
    /\ course_job' = [status |-> STARTED, course_structure |-> << >>, has_structure |-> FALSE]
    /\ sw' = NewStructureWorker("live")
    /\ stream' = << >>
    /\ grown' = 0
    /\ UNCHANGED << milestones, draft_tasks, events, target, AssessmentVars, DeployVars, subscribed, TaskVars, BootVars >>

\* The provider's partial outline grows
ProviderGrow ==
    /\ sw.pc = "streaming"
    /\ target.any => grown < MaxGrow
    /\ stream' \in Grow(stream)
    /\ target.any \/ OutlineBelow(stream', target.outline)
    /\ grown' = IF target.any THEN grown + 1 ELSE grown
    /\ UNCHANGED << course_job, milestones, draft_tasks, events, target, AssessmentVars, DeployVars, subscribed, sw, TaskVars, BootVars >>

\* One iteration of `async for chunk in stream`.  A stream towards a fixed
\* outline yields a chunk when the outline has grown; any other stream may
\* yield the same outline again
StructureChunk ==
    /\ sw.pc = "streaming"
    /\ IF target.any THEN sw.nchunks < MaxChunks ELSE sw.nchunks = 0 \/ sw.chunk # stream
    /\ LET s == ProcessChunk(LoopState, stream)
       IN /\ sw' = IF s.raised
                    THEN [RaiseInStructure EXCEPT !.raised_by = s.raised_by]
                    ELSE [sw EXCEPT !.chunk = stream,
                                    !.nchunks = IF target.any THEN @ + 1 ELSE 1,
                                    !.module_ids = s.module_ids,
                                    !.module_concepts = s.module_concepts]
          /\ milestones' = s.milestones
          /\ draft_tasks' = s.draft_tasks
          /\ events' = s.events
    /\ UNCHANGED << course_job, stream, grown, target, AssessmentVars, DeployVars, subscribed, TaskVars, BootVars >>

\* add_milestone_to_course or create_draft_task_for_course raises while a
\* chunk is processed: the rows and events made before it stay
StructurePersistRaises ==
    /\ sw.pc = "streaming"
    /\ IF target.any THEN sw.nchunks < MaxChunks ELSE sw.nchunks = 0 \/ sw.chunk # stream
    /\ \E n \in 0..MaxWrites :
          LET s == ProcessChunk([LoopState EXCEPT !.writes_left = n], stream)
          IN /\ s.raised
             /\ s.raised_by = "store"
             /\ milestones' = s.milestones
             /\ draft_tasks' = s.draft_tasks
             /\ events' = s.events
             /\ sw' = [RaiseInStructure EXCEPT !.raised_by = s.raised_by]
    /\ UNCHANGED << course_job, stream, grown, target, AssessmentVars, DeployVars, subscribed, TaskVars, BootVars >>

\* The stream has ended on the chunk last read
StreamEnded == sw.pc = "streaming" /\ sw.nchunks > 0 /\ sw.chunk = stream

\* Mutant: the update stores the outline and leaves the status as it is
StructureCheckpoint_DetailsOnly ==
    /\ StreamEnded
    /\ CanStamp(sw.module_ids, sw.module_concepts, sw.chunk)
    /\ course_job' = [status |-> course_job.status,
                      course_structure |-> Stamped(sw.module_ids, sw.module_concepts, sw.chunk),
                      has_structure |-> TRUE]
    /\ sw' = Ended("checkpointed")
    /\ UNCHANGED << milestones, draft_tasks, events, stream, grown, target, AssessmentVars, DeployVars, subscribed, TaskVars,
                    BootVars >>

\* After the loop: the ids are stamped into the last chunk, and the job row
\* gets status pending and the outline in one update
StructureCheckpoint ==
    /\ StreamEnded
    /\ CanStamp(sw.module_ids, sw.module_concepts, sw.chunk)
    /\ course_job' = [status |-> PENDING,
                      course_structure |-> Stamped(sw.module_ids, sw.module_concepts, sw.chunk),
                      has_structure |-> TRUE]
    /\ sw' = Ended("checkpointed")
    /\ UNCHANGED << milestones, draft_tasks, events, stream, grown, target, AssessmentVars, DeployVars, subscribed, TaskVars, BootVars >>

\* After the loop: the stamping indexes an id that was never recorded
\* (IndexError), or the stream ended without a chunk (chunk is unbound)
StructureStampRaises ==
    /\ sw.pc = "streaming"
    /\ \/ sw.nchunks = 0 /\ stream = << >>
       \/ StreamEnded /\ ~CanStamp(sw.module_ids, sw.module_concepts, sw.chunk)
    /\ sw' = RaiseInStructure
    /\ UNCHANGED << course_job, DbVars, stream, grown, target, AssessmentVars, DeployVars, subscribed, TaskVars, BootVars >>

\* Mutant: the worker catches the exception and marks the job failed
StructureStreamRaises_MarksFailed ==
    /\ sw.pc = "streaming"
    /\ sw' = RaiseInStructure
    /\ course_job' = [course_job EXCEPT !.status = FAILED]
    /\ UNCHANGED << DbVars, stream, grown, target, AssessmentVars, DeployVars, subscribed, TaskVars, BootVars >>

\* The provider's stream raises while it is being read
StructureStreamRaises ==
    /\ sw.pc = "streaming"
    /\ sw' = RaiseInStructure
    /\ UNCHANGED << course_job, DbVars, stream, grown, target, AssessmentVars, DeployVars, subscribed, TaskVars, BootVars >>

\* The last statement: the course_structure_completed event
StructureNotify ==
    /\ sw.pc = "checkpointed"
    /\ events' = Append(events, Event("course_structure_completed", 0, 0))
    /\ sw' = IF send_item_update_raises(subscribed) THEN RaiseInStructure ELSE Ended("done")
    /\ UNCHANGED << course_job, milestones, draft_tasks, stream, grown, target, AssessmentVars, DeployVars, subscribed, TaskVars,
                    BootVars >>

StructureNext ==
    \/ ProviderGrow
    \/ StructureChunk
    \/ StructureCheckpoint
    \/ StructureStampRaises
    \/ StructureStreamRaises
    \/ StructurePersistRaises
    \/ StructureNotify

(***************************************************************************)
(* The job ledger's task rows and the fan-out (generate_course_tasks)      *)
(***************************************************************************)
openai_file_id == "F"

RECURSIVE Flatten(_)
Flatten(seqs) == IF seqs = << >> THEN << >> ELSE Head(seqs) \o Flatten(Tail(seqs))

\* Mutant: the innermost loop stops after the first task of a concept
Leaves_FirstTaskOnly(course_structure) ==
    Flatten([i \in 1..Len(course_structure) |->
        Flatten([c \in 1..Len(course_structure[i].concepts) |->
            [t \in 1..(IF Len(course_structure[i].concepts[c].tasks) > 0 THEN 1 ELSE 0) |->
                [task |-> course_structure[i].concepts[c].tasks[t],
                 concept |-> course_structure[i].concepts[c]]]])])

\* The (task, concept) pairs the three nested loops of generate_course_tasks
\* visit, in order
Leaves(course_structure) ==
    Flatten([i \in 1..Len(course_structure) |->
        Flatten([c \in 1..Len(course_structure[i].concepts) |->
            [t \in 1..Len(course_structure[i].concepts[c].tasks) |->
                [task |-> course_structure[i].concepts[c].tasks[t],
                 concept |-> course_structure[i].concepts[c]]]])])

\* store_task_generation_request: the row recorded for one leaf
NewTaskJob(leaf, job_uuid) ==
    [task_id |-> leaf.task.id,
     course_id |-> course_id,
     status |-> STARTED,
     job_details |-> [task |-> leaf.task, concept |-> leaf.concept,
                      openai_file_id |-> openai_file_id,
                      course_job_uuid |-> job_uuid, course_id |-> course_id]]

\* A generate_course_task coroutine with its arguments; task_job_uuid is the
\* position of the job row.  A coroutine object does not run until the batch
\* runner awaits it
NewCoroutine(task, concept, file_id, task_job_uuid, job_uuid, cid, origin) ==
    [task |-> task, concept |-> concept, file_id |-> file_id,
     task_job_uuid |-> task_job_uuid, course_job_uuid |-> job_uuid, course_id |-> cid,
     pc |-> "queued", origin |-> origin,
     course_jobs_status |-> [started |-> 0, completed |-> 0]]

\* The arguments a generate_course_task coroutine was called with
Args(coroutine) ==
    [task |-> coroutine.task, concept |-> coroutine.concept, file_id |-> coroutine.file_id,
     task_job_uuid |-> coroutine.task_job_uuid,
     course_job_uuid |-> coroutine.course_job_uuid, course_id |-> coroutine.course_id]

\* A job row together with the arguments its first coroutine was called
\* with (history: `passed` is not a column of the table)
WithPassed(row, coroutine) ==
    [task_id |-> row.task_id, course_id |-> row.course_id, status |-> row.status,
     job_details |-> row.job_details, passed |-> Args(coroutine)]

\* Mutant: the handler awaits the batch, so every coroutine has run to its
\* end when the handler returns
DispatchedCoroutines_Awaited(leaves, first_uuid) ==
    [k \in 1..Len(leaves) |->
        [NewCoroutine(leaves[k].task, leaves[k].concept, openai_file_id,
                      first_uuid + k - 1, course_job_uuid, course_id, "live")
            EXCEPT !.pc = "done"]]

\* Mutant: each coroutine is scheduled on its own as soon as it is created
DispatchedCoroutines_Scheduled(leaves, first_uuid) ==
    [k \in 1..Len(leaves) |->
        [NewCoroutine(leaves[k].task, leaves[k].concept, openai_file_id,
                      first_uuid + k - 1, course_job_uuid, course_id, "live")
            EXCEPT !.pc = "calling"]]

\* The coroutines generate_course_tasks appends to `tasks`, one per leaf, the
\* k-th for the job row recorded k-th
DispatchedCoroutines(leaves, first_uuid) ==
    [k \in 1..Len(leaves) |->
        NewCoroutine(leaves[k].task, leaves[k].concept, openai_file_id,
                     first_uuid + k - 1, course_job_uuid, course_id, "live")]

\* POST /generate/course/{course_id}/tasks.  Without a stored outline the
\* handler raises (KeyError) before it records anything
generate_course_tasks ==
    /\ course_job.has_structure
    /\ dispatch_budget > 0
    /\ LET leaves == Leaves(course_job.course_structure)
           coroutines == DispatchedCoroutines(leaves, Len(task_jobs) + 1)
       IN /\ task_jobs' = task_jobs \o [k \in 1..Len(leaves) |->
                                           WithPassed(NewTaskJob(leaves[k], course_job_uuid),
                                                      coroutines[k])]
          /\ workers' = workers \o coroutines
    /\ dispatch_budget' = dispatch_budget - 1
    /\ UNCHANGED << course_job, DbVars, stream, grown, target, AssessmentVars, DeployVars, subscribed, sw, BootVars >>

(***************************************************************************)
(* The batch runner (async_batch_gather): a pool of PoolSize in-flight     *)
(* units shared by every batch, the rest queued                            *)
(***************************************************************************)
InFlightPcs == {"calling", "persisted", "marked", "notified"}

InFlight == {w \in 1..Len(workers) : workers[w].pc \in InFlightPcs}

\* Mutant: a unit that raised ends the batch, and nothing queued is started
MayStart_AbortsOnFailure ==
    /\ Cardinality(InFlight) < PoolSize
    /\ \A w \in 1..Len(workers) : workers[w].pc # "raised"

\* Whether the runner may start another queued unit
MayStart == Cardinality(InFlight) < PoolSize

\* The runner starts a queued unit: generate_course_task runs up to its
\* provider call
StartTask(w) ==
    /\ workers[w].pc = "queued"
    /\ MayStart
    /\ workers' = [workers EXCEPT ![w].pc = "calling"]
    /\ UNCHANGED << course_job, DbVars, stream, grown, target, AssessmentVars, DeployVars, subscribed, sw, task_jobs, dispatch_budget,
                    BootVars >>

(***************************************************************************)
(* generate_course_task                                                    *)
(***************************************************************************)
\* What an exception inside generate_course_task does: nothing in the
\* function catches it, so it leaves the coroutine at once
RaiseInTask(w) == [workers EXCEPT ![w].pc = "raised"]

\* client.chat.completions.create raises (provider error, or output that
\* fails the response_model's validation), or the provider returns and
\* add_generated_learning_material / add_generated_quiz raises
TaskRaises(w) ==
    /\ workers[w].pc = "calling"
    /\ workers' = RaiseInTask(w)
    /\ UNCHANGED << course_job, DbVars, stream, grown, target, AssessmentVars, DeployVars, subscribed, sw, task_jobs, dispatch_budget,
                    BootVars >>

\* client.chat.completions.create returns the structured output, and
\* add_generated_learning_material / add_generated_quiz writes it against
\* task["id"]
TaskPersist(w) ==
    /\ workers[w].pc = "calling"
    /\ draft_tasks' = [k \in 1..Len(draft_tasks) |->
                          IF draft_tasks[k].id = workers[w].task.id
                          THEN [draft_tasks[k] EXCEPT !.content = @ + 1]
                          ELSE draft_tasks[k]]
    /\ workers' = [workers EXCEPT ![w].pc = "persisted"]
    /\ UNCHANGED << course_job, milestones, events, stream, grown, target, AssessmentVars, DeployVars, subscribed, sw, task_jobs,
                    dispatch_budget, BootVars >>

\* update_task_generation_job_status(task_job_uuid, COMPLETED)
TaskMarkCompleted(w) ==
    /\ workers[w].pc = "persisted"
    /\ task_jobs' = [task_jobs EXCEPT ![workers[w].task_job_uuid].status = COMPLETED]
    /\ workers' = [workers EXCEPT ![w].pc = "marked"]
    /\ UNCHANGED << course_job, DbVars, stream, grown, target, AssessmentVars, DeployVars, subscribed, sw, dispatch_budget, BootVars >>

\* get_course_task_generation_jobs_status(course_id): the number of the
\* course's task jobs in each status
CountJobs(cid, status) ==
    Cardinality({j \in 1..Len(task_jobs) :
                    task_jobs[j].course_id = cid /\ task_jobs[j].status = status})

get_course_task_generation_jobs_status(cid) ==
    [started |-> CountJobs(cid, STARTED), completed |-> CountJobs(cid, COMPLETED)]

\* Mutant: the counts are read and the event is sent before the job is
\* marked completed
TaskReadAndNotify_BeforeMark(w) ==
    /\ workers[w].pc = "persisted"
    /\ LET course_jobs_status == get_course_task_generation_jobs_status(workers[w].course_id)
       IN /\ workers' = [workers EXCEPT ![w].pc = "notified",
                                        ![w].course_jobs_status = course_jobs_status]
          /\ events' = Append(events, Event("task_completed", workers[w].task.id,
                                            course_jobs_status.completed))
    /\ task_jobs' = [task_jobs EXCEPT ![workers[w].task_job_uuid].status = COMPLETED]
    /\ UNCHANGED << course_job, milestones, draft_tasks, stream, grown, target, AssessmentVars, DeployVars, subscribed, sw,
                    dispatch_budget, BootVars >>

\* The status counts are read, and the task_completed event is sent with
\* the completed count just read
TaskReadAndNotify(w) ==
    /\ workers[w].pc = "marked"
    /\ LET course_jobs_status == get_course_task_generation_jobs_status(workers[w].course_id)
       IN /\ workers' = IF send_item_update_raises(subscribed)
                         THEN RaiseInTask(w)
                         ELSE [workers EXCEPT ![w].pc = "notified",
                                              ![w].course_jobs_status = course_jobs_status]
          /\ events' = Append(events, Event("task_completed", workers[w].task.id,
                                            course_jobs_status.completed))
    /\ UNCHANGED << course_job, milestones, draft_tasks, stream, grown, target, AssessmentVars, DeployVars, subscribed, sw, task_jobs,
                    dispatch_budget, BootVars >>

\* Mutant: the parent is marked completed without a look at the started count
ParentStatusAfter_Unchecked(status, course_jobs_status) == COMPLETED

\* Mutant: the test of the started count is inverted
ParentStatusAfter_Inverted(status, course_jobs_status) ==
    IF course_jobs_status.started # 0 THEN COMPLETED ELSE status

\* The last statement: the parent is marked completed when the counts read
\* before the event was sent show no started job
ParentStatusAfter(status, course_jobs_status) ==
    IF course_jobs_status.started = 0 THEN COMPLETED ELSE status

TaskFinish(w) ==
    /\ workers[w].pc = "notified"
    /\ course_job' = [course_job EXCEPT
                         !.status = ParentStatusAfter(@, workers[w].course_jobs_status)]
    /\ workers' = [workers EXCEPT ![w].pc = "done",
                                  ![w].course_jobs_status = [started |-> 0, completed |-> 0]]
    /\ UNCHANGED << DbVars, stream, grown, target, AssessmentVars, DeployVars, subscribed, sw, task_jobs, dispatch_budget, BootVars >>

TaskNext ==
    \E w \in 1..Len(workers) :
        \/ StartTask(w)
        \/ TaskRaises(w)
        \/ TaskPersist(w)
        \/ TaskMarkCompleted(w)
        \/ TaskReadAndNotify(w)
        \/ TaskFinish(w)

(***************************************************************************)
(* Process restart and the resume functions                                *)
(***************************************************************************)
\* The process dies: every coroutine is gone, the rows stay.  The next boot
\* has both resume functions to run.  The clients' requests that were still
\* to come are lost with the restart
Crash ==
    /\ crash_budget > 0
    /\ course_job.status # "none"
    /\ crash_budget' = crash_budget - 1
    /\ sw' = NoWorker
    /\ workers' = << >>
    /\ stream' = << >>
    /\ grown' = 0
    /\ resume_todo' = {"course_structure", "task"}
    /\ dispatch_budget' = 0
    /\ UNCHANGED << course_job, DbVars, target, AssessmentVars, DeployVars, subscribed, task_jobs, resubmitted >>

\* get_all_pending_course_structure_generation_jobs: the course jobs that
\* are neither completed nor failed
get_all_pending_course_structure_generation_jobs ==
    IF course_job.status \in {STARTED, PENDING} THEN {course_job_uuid} ELSE {}

\* Mutant: every task job is returned, whatever its status
get_all_pending_task_generation_jobs_All == {j \in 1..Len(task_jobs) : TRUE}

\* get_all_pending_task_generation_jobs: the task jobs that are neither
\* completed nor failed
get_all_pending_task_generation_jobs ==
    {j \in 1..Len(task_jobs) : task_jobs[j].status \notin {COMPLETED, FAILED}}

\* resume_pending_course_structure_generation_jobs
resume_pending_course_structure_generation_jobs ==
    /\ "course_structure" \in resume_todo
    /\ resume_todo' = resume_todo \ {"course_structure"}
    /\ LET jobs == get_all_pending_course_structure_generation_jobs
       IN IF jobs = {}
          THEN UNCHANGED << sw, resubmitted >>
          ELSE /\ sw' = NewStructureWorker("resume")
               /\ resubmitted' = resubmitted \cup
                      {[kind |-> "course", job |-> 0, status |-> course_job.status]}
    /\ UNCHANGED << course_job, DbVars, stream, grown, target, AssessmentVars, DeployVars, subscribed, TaskVars, crash_budget >>

RECURSIVE SetToSeq(_)
SetToSeq(S) ==
    IF S = {} THEN << >>
    ELSE LET m == CHOOSE x \in S : \A y \in S : x <= y
         IN << m >> \o SetToSeq(S \ {m})

\* Mutant: the parent job's token is passed where the task job's token belongs
ResumedCoroutines_ParentToken(jobs) ==
    LET js == SetToSeq(jobs)
    IN [k \in 1..Len(js) |->
           NewCoroutine(task_jobs[js[k]].job_details.task,
                        task_jobs[js[k]].job_details.concept,
                        task_jobs[js[k]].job_details.openai_file_id,
                        1,
                        task_jobs[js[k]].job_details.course_job_uuid,
                        task_jobs[js[k]].job_details.course_id,
                        "resume")]

\* The coroutines resume_pending_task_generation_jobs appends to `tasks`,
\* one per job returned, with the arguments stored in the job's details
ResumedCoroutines(jobs) ==
    LET js == SetToSeq(jobs)
    IN [k \in 1..Len(js) |->
           NewCoroutine(task_jobs[js[k]].job_details.task,
                        task_jobs[js[k]].job_details.concept,
                        task_jobs[js[k]].job_details.openai_file_id,
                        js[k],
                        task_jobs[js[k]].job_details.course_job_uuid,
                        task_jobs[js[k]].job_details.course_id,
                        "resume")]

\* resume_pending_task_generation_jobs
resume_pending_task_generation_jobs ==
    /\ "task" \in resume_todo
    /\ resume_todo' = resume_todo \ {"task"}
    /\ LET jobs == get_all_pending_task_generation_jobs
       IN /\ workers' = workers \o ResumedCoroutines(jobs)
          /\ resubmitted' = resubmitted \cup
                 {[kind |-> "task", job |-> j, status |-> task_jobs[j].status] : j \in jobs}
    /\ UNCHANGED << course_job, DbVars, stream, grown, target, AssessmentVars, DeployVars, subscribed, sw, task_jobs, dispatch_budget,
                    crash_budget >>

(***************************************************************************)
(* The notifier's clients (websocket manager): a client of the course's    *)
(* channel connects and disconnects at any time                            *)
(***************************************************************************)
connect ==
    /\ ~subscribed
    /\ subscribed' = TRUE
    /\ UNCHANGED << course_job, DbVars, stream, grown, target, AssessmentVars, DeployVars, sw, TaskVars, BootVars >>

disconnect ==
    /\ subscribed
    /\ subscribed' = FALSE
    /\ UNCHANGED << course_job, DbVars, stream, grown, target, AssessmentVars, DeployVars, sw, TaskVars, BootVars >>

NoJob == [status |-> "none", course_structure |-> << >>, has_structure |-> FALSE]

AnyOutline == [any |-> TRUE, outline |-> << >>]

\* Before any request: no job, no rows, no worker
InitEmpty(targets, dispatches, crashes, subscriptions) ==
    /\ target \in targets
    /\ subscribed \in subscriptions
    /\ dispatch_budget = dispatches
    /\ crash_budget = crashes
    /\ course_job = NoJob
    /\ milestones = << >>
    /\ draft_tasks = << >>
    /\ events = << >>
    /\ stream = << >>
    /\ grown = 0
    /\ sw = NoWorker
    /\ task_jobs = << >>
    /\ workers = << >>
    /\ resume_todo = {}
    /\ resubmitted = {}
    /\ submissions = << >>
    /\ question_responses = << >>
    /\ leaderboard_entries = << >>
    /\ requests = << >>
    /\ role_assessments = << >>
    /\ course_assessments = << >>
    /\ returned = << >>

StreamNext == generate_course_structure \/ StructureNext

\* The outline of the scenarios: one module Intro, one concept, tasks T1 and T2
ScenarioOutline == << [name |-> "Intro", concepts |-> << [tasks |-> << T1, T2 >>] >>] >>

Targets == { [any |-> FALSE, outline |-> o] : o \in {ScenarioOutline} }

LiveNext ==
    \/ generate_course_structure
    \/ StructureNext
    \/ generate_course_tasks
    \/ TaskNext

Next ==
    \/ LiveNext
    \/ Crash
    \/ resume_pending_course_structure_generation_jobs
    \/ resume_pending_task_generation_jobs

\* The live pipeline: one structure run, then dispatches and their workers
Spec ==
    /\ InitEmpty(Targets, MaxDispatch, 0, {TRUE})
    /\ [][LiveNext]_vars

\* The live pipeline under the event loop's scheduling: a coroutine that can
\* take a step is eventually run
FairSpec == Spec /\ WF_vars(TaskNext)

\* The scenarios: the outline is dispatched once
ScenarioSpec ==
    /\ InitEmpty(Targets, 1, 0, {TRUE})
    /\ [][LiveNext]_vars

NotifyNext ==
    \/ LiveNext
    \/ connect
    \/ disconnect

\* The scenarios with clients that come and go, under the event loop's
\* scheduling
NotifySpec ==
    /\ InitEmpty(Targets, 1, 0, BOOLEAN)
    /\ [][NotifyNext]_vars
    /\ WF_vars(TaskNext)
    /\ WF_vars(StructureNotify)

\* The pipeline with one dispatch and process restarts
RestartSpec ==
    /\ InitEmpty(Targets, 1, MaxCrashes, {TRUE})
    /\ [][Next]_vars

\* One live run of the course-structure worker over any growing stream
StreamSpec ==
    /\ InitEmpty({AnyOutline}, 0, 0, {TRUE})
    /\ [][StreamNext]_vars

(***************************************************************************)
(* Claims                                                                  *)
(***************************************************************************)
CountEvents(name, ids) ==
    Cardinality({k \in 1..Len(events) : events[k].event = name /\ events[k].id \in ids})

\* module_created events fired for the module at position index of the outline
ModuleEventsOf(index) ==
    CountEvents("module_created",
                {milestones[k].id : k \in {j \in 1..Len(milestones) :
                                              milestones[j].of = << index >>}})

\* task_created events fired for the task at (index, concept_index, task_index)
TaskEventsOf(index, concept_index, task_index) ==
    CountEvents("task_created",
                {draft_tasks[k].id : k \in {j \in 1..Len(draft_tasks) :
                        draft_tasks[j].of = << index, concept_index, task_index >>}})

\* The entities of a chunk the worker is to materialize: a named module with
\* concepts, and in it a named task of a valid type
IsModuleEntity(module) == module.name # "" /\ module.concepts # << >>
IsTaskEntity(task) == task.name # "" /\ task.type \in ValidTaskTypes

\* C1: over a stream whose chunks only grow, every module that has appeared
\* has exactly one module_created event and every task that has appeared has
\* exactly one task_created event, after every chunk the worker has processed.
C1_OneEventPerEntity ==
    (sw.origin = "live" /\ sw.nchunks > 0) =>
        \A i \in 1..Len(sw.chunk) :
            IsModuleEntity(sw.chunk[i]) =>
                /\ ModuleEventsOf(i - 1) = 1
                /\ \A c \in 1..Len(sw.chunk[i].concepts) :
                      \A t \in 1..Len(sw.chunk[i].concepts[c].tasks) :
                          IsTaskEntity(sw.chunk[i].concepts[c].tasks[t]) =>
                              TaskEventsOf(i - 1, c - 1, t - 1) = 1

TerminalStatuses == {COMPLETED, FAILED}

AllTaskJobsTerminal ==
    /\ Len(task_jobs) >= 1
    /\ \A j \in 1..Len(task_jobs) : task_jobs[j].status \in TerminalStatuses

\* C2: the course job becomes completed only when at least one task job
\* exists for the course and every task job of the course is terminal.
C2_CompletedOnlyWhenAllTerminal ==
    [][(course_job.status # COMPLETED /\ course_job'.status = COMPLETED)
          => AllTaskJobsTerminal']_vars

\* C3: a task worker in which an exception was raised has its job marked
\* failed.
C3_RaisedJobIsFailed ==
    \A w \in 1..Len(workers) :
        workers[w].pc = "raised" => task_jobs[workers[w].task_job_uuid].status = FAILED

WorkerIds == 1..(MaxDispatch * Len(Leaves(ScenarioOutline)))

Finished(w) == w \in DOMAIN workers /\ workers[w].pc \in {"done", "raised"}

\* C4: once a task worker has failed, every other task worker that was
\* submitted still runs to its own end (done or raised).
C4_SiblingsStillFinish ==
    \A i \in WorkerIds :
        (i \in DOMAIN workers /\ \E j \in DOMAIN workers : j # i /\ workers[j].pc = "raised")
            ~> Finished(i)

C4_Witness ==
    \E i, j \in DOMAIN workers :
        /\ i < j
        /\ workers[i].pc = "raised"
        /\ workers[j].pc = "done"
        /\ Len(workers) > PoolSize

WorkerOf(name) == {w \in DOMAIN workers : workers[w].task.name = name}

\* C5: when the worker of T2 has raised and the worker of its only sibling
\* T1 has finished, T2's job is failed, T1's job is completed and the course
\* job is completed.
C5_MixedOutcome ==
    \A w1 \in WorkerOf("T1"), w2 \in WorkerOf("T2") :
        (workers[w1].pc = "done" /\ workers[w2].pc = "raised")
            => /\ task_jobs[workers[w2].task_job_uuid].status = FAILED
               /\ task_jobs[workers[w1].task_job_uuid].status = COMPLETED
               /\ course_job.status = COMPLETED

ModuleRowsOf(index) ==
    Cardinality({k \in 1..Len(milestones) : milestones[k].of = << index >>})

ResumedFrom(kind, status) ==
    \E r \in resubmitted : r.kind = kind /\ r.status = status

\* C6: after a pending course job whose stored outline records N modules has
\* been resumed, each of those N modules still has one row and one
\* module_created event.
C6_ResumeCreatesNoStoredModule ==
    ResumedFrom("course", PENDING) =>
        \A i \in 1..Len(course_job.course_structure) :
            ModuleRowsOf(i - 1) = 1 /\ ModuleEventsOf(i - 1) = 1

\* C7: if the course's task jobs end up all terminal, the course job is
\* eventually completed, whatever the interleaving of the task workers.
C7_ParentEventuallyCompleted ==
    <>[]AllTaskJobsTerminal => <>(course_job.status = COMPLETED)

C7_Witness ==
    /\ AllTaskJobsTerminal
    /\ course_job.status = COMPLETED
    /\ Len(task_jobs) > Len(Leaves(ScenarioOutline))
    /\ \A w \in DOMAIN workers : workers[w].pc = "done"

ProviderCalls == {w \in 1..Len(workers) : workers[w].pc = "calling"}

TaskEvent(k, name, task_name) ==
    /\ events[k].event = name
    /\ \E r \in 1..Len(draft_tasks) :
          draft_tasks[r].id = events[k].id /\ draft_tasks[r].name = task_name

\* Both task workers of the scenario have reported completed
BothReported ==
    /\ Len(workers) = 2
    /\ \A w \in DOMAIN workers :
          workers[w].pc = "done" /\ task_jobs[workers[w].task_job_uuid].status = COMPLETED

FirstThreeEvents ==
    /\ events[1].event = "module_created"
    /\ TaskEvent(2, "task_created", "T1")
    /\ TaskEvent(3, "task_created", "T2")

\* C9 as stated: after both task workers reported completed there are 2 task
\* jobs, the course job is completed, and exactly 4 events were emitted:
\* module_created, task_created(T1), task_created(T2), then task_completed.
C9_FourEvents ==
    BothReported =>
        /\ Len(task_jobs) = 2
        /\ course_job.status = COMPLETED
        /\ Len(events) = 4
        /\ FirstThreeEvents
        /\ \A k \in 4..Len(events) : events[k].event = "task_completed"

\* C9 as amended: after both task workers reported completed and the
\* structure worker has returned there are 2 task jobs, the course job is
\* completed, and exactly 6 events were emitted: module_created,
\* task_created(T1), task_created(T2) in this order, then
\* course_structure_completed and one task_completed for each of T1 and T2.
C9_HappyPath ==
    (BothReported /\ sw.pc = "done") =>
        /\ Len(task_jobs) = 2
        /\ course_job.status = COMPLETED
        /\ Len(events) = 6
        /\ FirstThreeEvents
        /\ \E k \in 4..6 : events[k].event = "course_structure_completed"
        /\ \E k \in 4..6 : TaskEvent(k, "task_completed", "T1")
        /\ \E k \in 4..6 : TaskEvent(k, "task_completed", "T2")

C9_Witness ==
    /\ BothReported
    /\ sw.pc = "done"
    /\ Len(events) = 6
    /\ TaskEvent(5, "task_completed", "T2")
    /\ TaskEvent(6, "task_completed", "T1")

\* C10: every job a resume function re-invoked a worker for had status
\* started or pending when it was selected.
C10_ResumeOnlyIncomplete ==
    \A r \in resubmitted : r.status \in {STARTED, PENDING}

C10_Witness ==
    /\ resume_todo = {}
    /\ \E r \in resubmitted : r.kind = "task"
    /\ \E j \in 1..Len(task_jobs) :
          /\ task_jobs[j].status = COMPLETED
          /\ \A r \in resubmitted : ~(r.kind = "task" /\ r.job = j)
          /\ \A w \in DOMAIN workers : workers[w].task_job_uuid # j

\* A worker invocation that has started and not yet returned or raised
StructureWorkerRunning == sw.pc \in {"streaming", "checkpointed"}
TaskWorkerRunning(w) == workers[w].pc \in InFlightPcs

NonTerminal(status) == status \in {STARTED, PENDING}

\* C11: a crash while a worker is running finds that worker's job in a
\* non-terminal status (started, or pending for the course job), and a resume
\* function that runs on the next boot re-invokes a worker for every job that
\* is in a non-terminal status.
C11_CrashLeavesResumable ==
    [][/\ (crash_budget' < crash_budget) =>
              /\ StructureWorkerRunning => NonTerminal(course_job.status)
              /\ \A w \in DOMAIN workers :
                    TaskWorkerRunning(w) =>
                        task_jobs[workers[w].task_job_uuid].status = STARTED
       /\ ("task" \in resume_todo /\ "task" \notin resume_todo') =>
              \A j \in DOMAIN task_jobs :
                  NonTerminal(task_jobs[j].status) =>
                      \E r \in resubmitted' : r.kind = "task" /\ r.job = j
       /\ ("course_structure" \in resume_todo /\ "course_structure" \notin resume_todo') =>
              (NonTerminal(course_job.status) =>
                  \E r \in resubmitted' : r.kind = "course")]_vars

\* C12: once the course job or a task job has status completed or failed, no
\* step of any worker (live, of a repeated dispatch, or resumed) changes that
\* job's status again.
C12_TerminalIsAbsorbing ==
    [][/\ course_job.status \in TerminalStatuses => course_job'.status = course_job.status
       /\ \A j \in DOMAIN task_jobs :
             task_jobs[j].status \in TerminalStatuses =>
                 task_jobs'[j].status = task_jobs[j].status]_vars

\* The running task workers whose job row is task job j
DriversOfTaskJob(j) ==
    {w \in DOMAIN workers : TaskWorkerRunning(w) /\ workers[w].task_job_uuid = j}

\* The running invocations whose next statement writes the course job row:
\* a task worker before its update_course_generation_job_status (0 stands for
\* the structure worker before update_course_generation_job_status_and_details)
WritersOfCourseJob ==
    {w \in DOMAIN workers :
        workers[w].pc = "notified" /\ workers[w].course_jobs_status.started = 0}
    \cup (IF StreamEnded /\ CanStamp(sw.module_ids, sw.module_concepts, sw.chunk)
          THEN {0} ELSE {})

\* C13: at any time a task job is driven by at most one running worker, and
\* at most one running invocation is about to write the course job's status
\* or details.
C13_SingleWriterPerJob ==
    /\ \A j \in DOMAIN task_jobs : Cardinality(DriversOfTaskJob(j)) <= 1
    /\ Cardinality(WritersOfCourseJob) <= 1

\* The running task workers that have still to write the generated content of
\* task id (they are in the provider call that precedes the write)
ContentWritersOf(id) ==
    {w \in DOMAIN workers : workers[w].pc = "calling" /\ workers[w].task.id = id}

\* C14: no two task workers that are active at the same time write generated
\* content for the same task id.
C14_DisjointContentWrites ==
    \A k \in DOMAIN draft_tasks : Cardinality(ContentWritersOf(draft_tasks[k].id)) <= 1

ModuleRowIds == {milestones[k].id : k \in DOMAIN milestones}
TaskRowIds == {draft_tasks[k].id : k \in DOMAIN draft_tasks}

\* Every module and task of a stored outline carries the id of a row
AllStamped(course_structure) ==
    \A i \in DOMAIN course_structure :
        /\ course_structure[i].id \in ModuleRowIds
        /\ \A c \in DOMAIN course_structure[i].concepts :
              \A t \in DOMAIN course_structure[i].concepts[c].tasks :
                  course_structure[i].concepts[c].tasks[t].id \in TaskRowIds

\* The step in which the job row gets the outline
IsCheckpointStep == sw.pc = "streaming" /\ sw'.pc = "checkpointed"

\* An outline with no field left unfilled: what a provider's last emission is
IsFinalOutline(outline) ==
    \A i \in DOMAIN outline :
        /\ outline[i].name # ""
        /\ \A c \in DOMAIN outline[i].concepts :
              \A t \in DOMAIN outline[i].concepts[c].tasks :
                  /\ outline[i].concepts[c].tasks[t].name # ""
                  /\ outline[i].concepts[c].tasks[t].type # ""

\* C15: when the stream has ended the worker can write its checkpoint; the
\* checkpoint is one update that stores the last outline read, every module
\* and task stamped with a materialized id, and sets the status to pending;
\* and a course job with status pending has a stored course_structure.
C15_OutlineCheckpoint ==
    /\ []((StreamEnded /\ IsFinalOutline(sw.chunk))
              => CanStamp(sw.module_ids, sw.module_concepts, sw.chunk))
    /\ [](course_job.status = PENDING => course_job.has_structure)
    /\ [][IsCheckpointStep =>
             /\ course_job'.status = PENDING
             /\ course_job'.has_structure
             /\ Len(course_job'.course_structure) = Len(sw.chunk)
             /\ AllStamped(course_job'.course_structure)]_vars

\* The positions (module, concept, task) of the leaf tasks of a stored outline
LeafPositions(course_structure) ==
    {p \in (DOMAIN course_structure) \X (1..2) \X (1..2) :
        /\ p[2] \in DOMAIN course_structure[p[1]].concepts
        /\ p[3] \in DOMAIN course_structure[p[1]].concepts[p[2]].tasks}

\* The step of one call of generate_course_tasks
IsDispatchStep == dispatch_budget' = dispatch_budget - 1

\* The rows the step has recorded
NewTaskJobs == (Len(task_jobs) + 1)..Len(task_jobs')

\* C16: one call of generate_course_tasks records exactly one task job per
\* leaf task of the stored outline, in status started and carrying the task,
\* its concept, the reference file id, the parent job token and the course id.
C16_FanOutComplete ==
    [][IsDispatchStep =>
          /\ Cardinality(NewTaskJobs) = Cardinality(LeafPositions(course_job.course_structure))
          /\ \A p \in LeafPositions(course_job.course_structure) :
                LET concept == course_job.course_structure[p[1]].concepts[p[2]]
                    task == concept.tasks[p[3]]
                    rows == {j \in NewTaskJobs : task_jobs'[j].task_id = task.id}
                IN /\ Cardinality(rows) = 1
                   /\ \A j \in rows :
                         /\ task_jobs'[j].status = STARTED
                         /\ task_jobs'[j].course_id = course_id
                         /\ task_jobs'[j].job_details =
                               [task |-> task, concept |-> concept,
                                openai_file_id |-> openai_file_id,
                                course_job_uuid |-> course_job_uuid,
                                course_id |-> course_id]]_vars

\* Two calls have each recorded a job for each of the two leaves
C16_Witness ==
    /\ Cardinality(LeafPositions(course_job.course_structure)) = 2
    /\ Len(task_jobs) = 4
    /\ dispatch_budget = 0
    /\ task_jobs[3].task_id # task_jobs[4].task_id
    /\ \A w \in 3..4 : workers[w].pc = "queued"

\* The calls of send_item_update a step has made
NewEvents == (Len(events) + 1)..Len(events')

\* The task ids the structure worker has recorded in module_concepts
RecordedTaskIds(module_concepts) ==
    UNION {UNION {{module_concepts[m][c][t] : t \in DOMAIN module_concepts[m][c]} :
                     c \in DOMAIN module_concepts[m]} :
              m \in DOMAIN module_concepts}

\* What the emitting worker has done right after an event nobody received
\* (the structure worker has recorded the id, unless a later insertion of
\* the same chunk has failed in the store)
WorkerWentOn(e) ==
    CASE e.event = "module_created" ->
            \/ sw'.pc = "streaming" /\ \E i \in DOMAIN sw'.module_ids : sw'.module_ids[i] = e.id
            \/ sw'.pc = "raised" /\ sw'.raised_by = "store"
      [] e.event = "task_created" ->
            \/ sw'.pc = "streaming" /\ e.id \in RecordedTaskIds(sw'.module_concepts)
            \/ sw'.pc = "raised" /\ sw'.raised_by = "store"
      [] e.event = "course_structure_completed" ->
            sw'.pc = "done"
      [] OTHER ->
            \E w \in DOMAIN workers :
                /\ workers[w].pc = "marked"
                /\ workers'[w].pc = "notified"
                /\ workers'[w].task.id = e.id
                /\ task_jobs'[workers'[w].task_job_uuid].status = COMPLETED

\* C17: a send_item_update that reaches no client neither fails nor stalls
\* the worker that made it: the structure worker records the id it has
\* created and goes on, and a task worker goes on to its check of the parent
\* job and returns.
C17_BestEffortNotification ==
    /\ [][\A k \in NewEvents : ~events'[k].delivered => WorkerWentOn(events'[k])]_vars
    /\ \A w \in WorkerIds :
          (w \in DOMAIN workers /\ workers[w].pc = "marked")
              ~> (w \in DOMAIN workers /\ workers[w].pc = "done")

C17_Witness ==
    /\ course_job.status = COMPLETED
    /\ \E k \in DOMAIN events : events[k].event = "module_created" /\ ~events[k].delivered
    /\ \E k \in DOMAIN events : events[k].event = "task_created" /\ ~events[k].delivered
    /\ \E k \in DOMAIN events :
          /\ events[k].event = "task_completed"
          /\ ~events[k].delivered
          /\ \E w \in DOMAIN workers : workers[w].task.id = events[k].id /\ workers[w].pc = "done"

\* The module a task row was created in
ModuleIdOfTask(task_id) ==
    {draft_tasks[r].module_id : r \in {q \in DOMAIN draft_tasks : draft_tasks[q].id = task_id}}

\* C18: in one run of the structure worker the module_created event of a
\* module precedes every task_created event of that module's tasks, and
\* course_structure_completed comes after every module_created and
\* task_created event and after the job has been set to pending.
C18_EventOrder ==
    \A k \in DOMAIN events :
        /\ events[k].event = "task_created" =>
              \A m \in ModuleIdOfTask(events[k].id) :
                  \E j \in 1..(k - 1) :
                      events[j].event = "module_created" /\ events[j].id = m
        /\ events[k].event = "course_structure_completed" =>
              /\ \A j \in DOMAIN events : j > k =>
                    events[j].event \notin {"module_created", "task_created"}
              /\ course_job.has_structure
              /\ course_job.status # STARTED

C18_Witness ==
    /\ sw.pc = "done"
    /\ Len(events) >= 4
    /\ events[Len(events)].event = "course_structure_completed"
    /\ \E k \in DOMAIN events : events[k].event = "task_created" /\ k > 2
    /\ course_job.status = PENDING

\* The generated content of task id has been written at least once
ContentPersisted(id) ==
    \E r \in DOMAIN draft_tasks : draft_tasks[r].id = id /\ draft_tasks[r].content >= 1

\* C19: a task_completed event is sent by a worker whose task has its content
\* persisted and whose job is already marked completed, and its
\* total_completed is the number of the course's completed task jobs at that
\* moment, the emitting task's job included.
C19_TaskCompletedAfterMarking ==
    [][\A k \in NewEvents :
          events'[k].event = "task_completed" =>
              \E w \in DOMAIN workers :
                  /\ workers[w].pc # "notified" /\ workers'[w].pc = "notified"
                  /\ workers[w].task.id = events'[k].id
                  /\ ContentPersisted(events'[k].id)
                  /\ task_jobs[workers[w].task_job_uuid].status = COMPLETED
                  /\ events'[k].total_completed = CountJobs(workers[w].course_id, COMPLETED)
                  /\ events'[k].total_completed >= 1]_vars

\* Two workers marked their jobs before either read the counts: both events
\* carry 2; and a later worker's event carries more
C19_Witness ==
    /\ Len(task_jobs) = 4
    /\ \E j, k \in DOMAIN events :
          /\ j < k
          /\ events[j].event = "task_completed" /\ events[j].total_completed = 2
          /\ events[k].event = "task_completed" /\ events[k].total_completed = 2
    /\ \E k \in DOMAIN events :
          events[k].event = "task_completed" /\ events[k].total_completed = 4

\* The step of one call of generate_course_structure
IsStructureRequestStep == course_job.status = "none" /\ course_job'.status # "none"

\* The coroutines a step has created
NewWorkers == (Len(workers) + 1)..Len(workers')

\* C20: when generate_course_tasks returns, a task job is recorded for every
\* coroutine it created, each still started, and none of the coroutines has
\* begun; when generate_course_structure returns, the job is started and the
\* structure worker has read nothing and stored no outline.
C20_NonBlockingDispatch ==
    [][/\ IsDispatchStep =>
             /\ Cardinality(NewWorkers) = Cardinality(NewTaskJobs)
             /\ \A w \in NewWorkers :
                   /\ workers'[w].pc = "queued"
                   /\ workers'[w].task_job_uuid \in NewTaskJobs
                   /\ task_jobs'[workers'[w].task_job_uuid].status = STARTED
       /\ IsStructureRequestStep =>
             /\ course_job'.status = STARTED
             /\ ~course_job'.has_structure
             /\ sw'.pc = "streaming" /\ sw'.nchunks = 0
             /\ milestones' = << >> /\ events' = << >>]_vars

\* The response of a dispatch over two leaves: both jobs started, no worker begun
C20_Witness ==
    /\ dispatch_budget = MaxDispatch - 1
    /\ Len(task_jobs) = 2
    /\ \A j \in DOMAIN task_jobs : task_jobs[j].status = STARTED
    /\ Len(workers) = 2
    /\ \A w \in DOMAIN workers : workers[w].pc = "queued"
    /\ course_job.status = PENDING

\* The worker has gone past its stream loop and stamping without an exception
ReachedCheckpoint ==
    /\ StreamEnded
    /\ CanStamp(sw.module_ids, sw.module_concepts, sw.chunk)
    /\ course_job'.status = PENDING
    /\ course_job'.has_structure

\* C21: an exception raised inside _generate_course_structure is not
\* swallowed: the worker returns normally only by way of its checkpoint, and
\* every other end of a running worker is the exception leaving it to its
\* invoker (the live background task or the resume batch), the process
\* restart aside.
C21_StructureFailuresPropagate ==
    [][/\ (sw.pc = "streaming" /\ sw'.pc \notin {"streaming", "idle"}) =>
             \/ sw'.pc = "checkpointed" /\ ReachedCheckpoint
             \/ sw'.pc = "raised" /\ sw'.origin = sw.origin /\ course_job' = course_job
       /\ (sw.pc = "checkpointed" /\ sw'.pc \notin {"checkpointed", "idle", "streaming"}) =>
             sw'.pc = "done"
       /\ (sw.pc # "done" /\ sw'.pc = "done") => sw.pc = "checkpointed"]_vars

\* A resumed worker has raised in the middle of its work, and so has not
\* checkpointed
C21_Witness ==
    /\ sw.pc = "raised"
    /\ sw.origin = "resume"
    /\ ResumedFrom("course", STARTED)
    /\ course_job.status = STARTED
    /\ Len(milestones) >= 2

TaskJobsOf(job_uuid) ==
    {j \in DOMAIN task_jobs : task_jobs[j].job_details.course_job_uuid = job_uuid}

\* C23: whenever a task job of the course job exists the course job is
\* pending or completed, never started, and the course job never goes from
\* started to completed in one step.
C23_NeverSkipsPending ==
    /\ [](TaskJobsOf(course_job_uuid) # {} => course_job.status \in {PENDING, COMPLETED})
    /\ [][~(course_job.status = STARTED /\ course_job'.status = COMPLETED)]_vars

\* The course job was completed by the task workers of a dispatch, after a
\* restart in which it was resumed as pending
C23_Witness ==
    /\ course_job.status = COMPLETED
    /\ Cardinality(TaskJobsOf(course_job_uuid)) = 2
    /\ ResumedFrom("course", PENDING)
    /\ ResumedFrom("task", STARTED)

\* The ids of the leaf tasks of the stored outline
LeafTaskIds ==
    {course_job.course_structure[p[1]].concepts[p[2]].tasks[p[3]].id :
        p \in LeafPositions(course_job.course_structure)}

JobsOfTask(id) == {j \in DOMAIN task_jobs : task_jobs[j].task_id = id}

\* The step in which the first task worker of the dispatch begins
FirstWorkerBegins ==
    /\ \A w \in DOMAIN workers : workers[w].pc = "queued"
    /\ \E w \in DOMAIN workers : workers'[w].pc # "queued"

\* C24: with a single dispatch, every leaf task of the outline has its job
\* recorded, in status started, when the first task worker begins, and the
\* course job is not completed while a leaf task has no job or a job that
\* is still started.
C24_NoPrematureCompletion ==
    /\ [][FirstWorkerBegins =>
             \A id \in LeafTaskIds :
                 /\ JobsOfTask(id) # {}
                 /\ \A j \in JobsOfTask(id) : task_jobs[j].status = STARTED]_vars
    /\ [](course_job.status = COMPLETED =>
             \A id \in LeafTaskIds :
                 /\ JobsOfTask(id) # {}
                 /\ \A j \in JobsOfTask(id) : task_jobs[j].status # STARTED)

\* The first worker has finished while its sibling is still in its provider
\* call: the course job is still pending
C24_Witness ==
    /\ Cardinality(LeafTaskIds) = 2
    /\ \E w1, w2 \in DOMAIN workers :
          /\ workers[w1].pc = "done"
          /\ workers[w2].pc = "calling"
          /\ task_jobs[workers[w2].task_job_uuid].status = STARTED
    /\ course_job.status = PENDING

\* The step in which an exception leaves the structure worker
StructureWorkerRaises == sw.pc = "streaming" /\ sw'.pc = "raised"

\* C25: when the structure worker raises before its ledger update, the
\* course job keeps status started and gains no course_structure, and every
\* module row, task row and event made so far is still there.
C25_FrameOnStructureFailure ==
    [][StructureWorkerRaises =>
          /\ course_job' = course_job
          /\ course_job'.status = STARTED
          /\ ~course_job'.has_structure
          /\ IsPrefix(milestones, milestones')
          /\ IsPrefix(draft_tasks, draft_tasks')
          /\ IsPrefix(events, events')]_vars

\* The worker has raised with two module rows and a task row made
C25_Witness ==
    /\ sw.pc = "raised"
    /\ course_job.status = STARTED
    /\ ~course_job.has_structure
    /\ Len(milestones) = 2
    /\ Len(draft_tasks) = 1
    /\ Len(events) = 3

\* The outline positions the row with this id was created from
ModulePositionsOf(id) == {milestones[r].of : r \in {q \in DOMAIN milestones : milestones[q].id = id}}
TaskPositionsOf(id) == {draft_tasks[r].of : r \in {q \in DOMAIN draft_tasks : draft_tasks[q].id = id}}

\* C26: in the outline stored with status pending every module carries the
\* id of the module row created from it, every leaf task the id of the task
\* row created from it, and no two leaf tasks carry the same id.
C26_IdStampingCorrect ==
    (course_job.status = PENDING /\ course_job.has_structure) =>
        LET cs == course_job.course_structure
        IN /\ \A i \in DOMAIN cs : ModulePositionsOf(cs[i].id) = {<< i - 1 >>}
           /\ \A p \in LeafPositions(cs) :
                 TaskPositionsOf(cs[p[1]].concepts[p[2]].tasks[p[3]].id)
                     = {<< p[1] - 1, p[2] - 1, p[3] - 1 >>}
           /\ \A p, q \in LeafPositions(cs) :
                 p # q => cs[p[1]].concepts[p[2]].tasks[p[3]].id
                              # cs[q[1]].concepts[q[2]].tasks[q[3]].id

(***************************************************************************)
(* Assessment store of src/api/db/assessment.py: start_assessment,         *)
(* submit_question_response, finalize_assessment_submission and the        *)
(* leaderboard it maintains.  Every execute_db_operation is one statement  *)
(* on the database, and a call may be suspended between two of them.       *)
(***************************************************************************)
PipelineVars == << course_job, milestones, draft_tasks, events, stream, grown, target, sw,
                   task_jobs, workers, dispatch_budget, crash_budget, resume_todo,
                   resubmitted, subscribed >>

\* Rows of assessment_submissions the model lets the clients create
MaxSubmissions == 2

IN_PROGRESS == "in_progress"
SUBMITTED == "submitted"

\* The users of the users table, the assessment tasks and the questions of
\* the task
Users == {"u1", "u2"}
AssessmentTasks == {"t1"}
Questions == {"q1"}

\* The user_id and cohort_id of the clients' requests: u1 takes the task in
\* cohort c1, u2 outside any cohort (cohort_id is None)
Clients == {<< "u1", "c1" >>, << "u2", "None" >>}

\* What a grader writes in question_responses.score and .max_score
Scores == {1, 2}
MaxScores == {2}

\* The requests the server may be handling at the same time
Requests == {"r1", "r2"}

Running(r, op, pc) ==
    /\ r \in DOMAIN requests
    /\ requests[r].op = op
    /\ requests[r].pc = pc

Put(r, call) == [q \in DOMAIN requests \cup {r} |-> IF q = r THEN call ELSE requests[q]]

Drop(r) == [q \in DOMAIN requests \ {r} |-> requests[q]]

SubmissionsOf(u, t) ==
    {i \in DOMAIN submissions : submissions[i].user_id = u /\ submissions[i].task_id = t}

InProgressOf(u, t) == {i \in SubmissionsOf(u, t) : submissions[i].status = IN_PROGRESS}

\* Calls of start_assessment that have still to insert their row
Inserting == {q \in DOMAIN requests : requests[q].op = "start_assessment"
                                       /\ requests[q].pc \in {"count", "insert"}}

StartCall(pc, u, t, c, attempt, id) ==
    [op |-> "start_assessment", pc |-> pc, user_id |-> u, task_id |-> t, cohort_id |-> c,
     attempt_number |-> attempt, submission_id |-> id]

\* start_assessment, lines 33-42: SELECT the in-progress submission of
\* (user, task); fetch_one takes one of the rows that match
start_assessment(r, u, t, c) ==
    /\ r \notin DOMAIN requests
    /\ LET existing == InProgressOf(u, t)
       IN IF existing # {}
          THEN \E e \in existing : requests' = Put(r, StartCall("return", u, t, c, 0, e))
          ELSE /\ Len(submissions) + Cardinality(Inserting) < MaxSubmissions
               /\ requests' = Put(r, StartCall("count", u, t, c, 0, 0))
    /\ UNCHANGED << submissions, question_responses, leaderboard_entries, PipelineVars, DeployVars >>

\* start_assessment, lines 45-51: attempt_number = COUNT(*) + 1
StartCount(r) ==
    /\ Running(r, "start_assessment", "count")
    /\ LET call == requests[r]
       IN requests' = Put(r, [call EXCEPT !.pc = "insert",
                                 !.attempt_number =
                                     Cardinality(SubmissionsOf(call.user_id, call.task_id)) + 1])
    /\ UNCHANGED << submissions, question_responses, leaderboard_entries, PipelineVars, DeployVars >>

NewSubmission(call) ==
    [user_id |-> call.user_id, task_id |-> call.task_id, cohort_id |-> call.cohort_id,
     total_score |-> 0, max_possible_score |-> 0, percentage_score |-> 0,
     status |-> IN_PROGRESS, attempt_number |-> call.attempt_number]

\* start_assessment, lines 54-60: INSERT the new submission
StartInsert(r) ==
    /\ Running(r, "start_assessment", "insert")
    /\ submissions' = Append(submissions, NewSubmission(requests[r]))
    /\ requests' = Put(r, [requests[r] EXCEPT !.pc = "return",
                                              !.submission_id = Len(submissions) + 1])
    /\ UNCHANGED << question_responses, leaderboard_entries, PipelineVars, DeployVars >>

\* start_assessment, lines 42 and 62: read the submission back and return it
StartReturn(r) ==
    /\ Running(r, "start_assessment", "return")
    /\ requests[r].submission_id \in DOMAIN submissions
    /\ requests' = Drop(r)
    /\ UNCHANGED << submissions, question_responses, leaderboard_entries, PipelineVars, DeployVars >>

StartNext(r, clients) ==
    \/ \E client \in clients, t \in AssessmentTasks :
           start_assessment(r, client[1], t, client[2])
    \/ StartCount(r)
    \/ StartInsert(r)
    \/ StartReturn(r)

ResponsesOf(submission_id) ==
    {i \in DOMAIN question_responses : question_responses[i].submission_id = submission_id}

\* submit_question_response: a new response row has the columns' defaults
\* score = 0.0 and max_score = 0.0; an existing one keeps its scores.  The
\* clients answer the questions of a submission that is in progress.
submit_question_response(submission_id, question_id) ==
    /\ submission_id \in DOMAIN submissions
    /\ submissions[submission_id].status = IN_PROGRESS
    /\ LET existing == {i \in ResponsesOf(submission_id) :
                            question_responses[i].question_id = question_id}
       IN question_responses' =
              IF existing # {}
              THEN question_responses
              ELSE Append(question_responses,
                          [submission_id |-> submission_id, question_id |-> question_id,
                           score |-> 0, max_score |-> 0])
    /\ UNCHANGED << submissions, leaderboard_entries, requests, PipelineVars, DeployVars >>

\* The grader of a response writes its score and max_score, while the
\* submission is in progress
grade(response_id, score, max_score) ==
    /\ response_id \in DOMAIN question_responses
    /\ submissions[question_responses[response_id].submission_id].status = IN_PROGRESS
    /\ question_responses' = [question_responses EXCEPT ![response_id].score = score,
                                                        ![response_id].max_score = max_score]
    /\ UNCHANGED << submissions, leaderboard_entries, requests, PipelineVars, DeployVars >>

RECURSIVE TotalScore(_)
TotalScore(ids) ==
    IF ids = {} THEN 0
    ELSE LET i == CHOOSE x \in ids : TRUE
         IN question_responses[i].score + TotalScore(ids \ {i})

RECURSIVE MaxPossibleScore(_)
MaxPossibleScore(ids) ==
    IF ids = {} THEN 0
    ELSE LET i == CHOOSE x \in ids : TRUE
         IN question_responses[i].max_score + MaxPossibleScore(ids \ {i})

\* total / max * 100; the scores of the model make the quotient a whole number
PercentageScore(total_score, max_possible_score) ==
    IF max_possible_score > 0 THEN (total_score * 100) \div max_possible_score ELSE 0

FinalizeCall(pc, id, total, maxp) ==
    [op |-> "finalize_assessment_submission", pc |-> pc, submission_id |-> id,
     total_score |-> total, max_possible_score |-> maxp,
     percentage_score |-> PercentageScore(total, maxp),
     submission |-> << >>, existing |-> 0, entries |-> << >>, rank |-> 0]

\* finalize_assessment_submission, lines 229-239: read the responses and total them
finalize_assessment_submission(r, submission_id) ==
    /\ r \notin DOMAIN requests
    /\ submission_id \in DOMAIN submissions
    /\ requests' = Put(r, FinalizeCall("update_submission", submission_id,
                                       TotalScore(ResponsesOf(submission_id)),
                                       MaxPossibleScore(ResponsesOf(submission_id))))
    /\ UNCHANGED << submissions, question_responses, leaderboard_entries, PipelineVars, DeployVars >>

\* finalize_assessment_submission, lines 242-249: UPDATE the submission
FinalizeUpdateSubmission(r) ==
    /\ Running(r, "finalize_assessment_submission", "update_submission")
    /\ LET call == requests[r]
       IN submissions' = [submissions EXCEPT
              ![call.submission_id].total_score = call.total_score,
              ![call.submission_id].max_possible_score = call.max_possible_score,
              ![call.submission_id].percentage_score = call.percentage_score,
              ![call.submission_id].status = SUBMITTED]
    /\ requests' = Put(r, [requests[r] EXCEPT !.pc = "get_submission"])
    /\ UNCHANGED << question_responses, leaderboard_entries, PipelineVars, DeployVars >>

\* update_leaderboard_entry, lines 260-270: read the submission and its user;
\* return when the user is not in the users table
LeaderboardGetSubmission(r) ==
    /\ Running(r, "finalize_assessment_submission", "get_submission")
    /\ LET submission == submissions[requests[r].submission_id]
       IN requests' = Put(r, [requests[r] EXCEPT
              !.submission = submission,
              !.pc = IF submission.user_id \in Users THEN "select_entry" ELSE "return"])
    /\ UNCHANGED << submissions, question_responses, leaderboard_entries, PipelineVars, DeployVars >>

EntriesOf(u, t) ==
    {i \in DOMAIN leaderboard_entries :
        leaderboard_entries[i].user_id = u /\ leaderboard_entries[i].task_id = t}

\* update_leaderboard_entry, lines 273-278: SELECT the entry of (user, task);
\* fetch_one takes one of the rows that match
LeaderboardSelectEntry(r) ==
    /\ Running(r, "finalize_assessment_submission", "select_entry")
    /\ LET existing == EntriesOf(requests[r].submission.user_id, requests[r].submission.task_id)
       IN \E e \in (IF existing = {} THEN {0} ELSE existing) :
              requests' = Put(r, [requests[r] EXCEPT !.existing = e, !.pc = "write_entry"])
    /\ UNCHANGED << submissions, question_responses, leaderboard_entries, PipelineVars, DeployVars >>

Max(a, b) == IF a >= b THEN a ELSE b

\* lines 282-290: the SET expressions all read the row as it was
UpdatedEntry_LatestSubmission(entry, submission, submission_id) ==
    [entry EXCEPT !.score = Max(entry.score, submission.total_score),
                  !.percentage = Max(entry.percentage, submission.percentage_score),
                  !.submission_id = submission_id]
UpdatedEntry(entry, submission, submission_id) ==
    [entry EXCEPT !.score = Max(entry.score, submission.total_score),
                  !.percentage = Max(entry.percentage, submission.percentage_score),
                  !.submission_id = IF submission.percentage_score > entry.percentage
                                    THEN submission_id
                                    ELSE entry.submission_id]

\* lines 293-300; rank_position is NULL (0) until the rankings are updated
NewEntry(submission, submission_id) ==
    [user_id |-> submission.user_id, cohort_id |-> submission.cohort_id,
     task_id |-> submission.task_id, score |-> submission.total_score,
     max_score |-> submission.max_possible_score,
     percentage |-> submission.percentage_score, rank_position |-> 0,
     submission_id |-> submission_id]

\* update_leaderboard_entry, lines 280-300: UPDATE the entry found, or INSERT one
LeaderboardWriteEntry(r) ==
    /\ Running(r, "finalize_assessment_submission", "write_entry")
    /\ LET call == requests[r]
       IN leaderboard_entries' =
              IF call.existing # 0
              THEN [leaderboard_entries EXCEPT ![call.existing] =
                        UpdatedEntry(leaderboard_entries[call.existing], call.submission,
                                     call.submission_id)]
              ELSE Append(leaderboard_entries, NewEntry(call.submission, call.submission_id))
    /\ requests' = Put(r, [requests[r] EXCEPT !.pc = "select_rankings"])
    /\ UNCHANGED << submissions, question_responses, PipelineVars, DeployVars >>

\* update_leaderboard_rankings, lines 309-314: the entries of the task, and of
\* the cohort when cohort_id is truthy
Selected(t, c) ==
    {i \in DOMAIN leaderboard_entries :
        /\ leaderboard_entries[i].task_id = t
        /\ (c # "None" => leaderboard_entries[i].cohort_id = c)}

\* ORDER BY percentage DESC, score DESC: a may come before b
MayPrecede_Ascending(a, b) ==
    \/ leaderboard_entries[a].percentage < leaderboard_entries[b].percentage
    \/ /\ leaderboard_entries[a].percentage = leaderboard_entries[b].percentage
       /\ leaderboard_entries[a].score <= leaderboard_entries[b].score
MayPrecede(a, b) ==
    \/ leaderboard_entries[a].percentage > leaderboard_entries[b].percentage
    \/ /\ leaderboard_entries[a].percentage = leaderboard_entries[b].percentage
       /\ leaderboard_entries[a].score >= leaderboard_entries[b].score

\* The orders the SELECT of lines 316-321 may return the entries in
Ordered(ids) ==
    {f \in [1..Cardinality(ids) -> ids] :
        /\ \A i, j \in DOMAIN f : i # j => f[i] # f[j]
        /\ \A i, j \in DOMAIN f : i < j => MayPrecede(f[i], f[j])}

\* update_leaderboard_rankings, lines 309-321
RankingsSelect(r) ==
    /\ Running(r, "finalize_assessment_submission", "select_rankings")
    /\ LET call == requests[r]
       IN \E entries \in Ordered(Selected(call.submission.task_id, call.submission.cohort_id)) :
              requests' = Put(r, [call EXCEPT !.entries = entries, !.rank = 1,
                                              !.pc = IF Len(entries) = 0 THEN "return"
                                                     ELSE "update_rank"])
    /\ UNCHANGED << submissions, question_responses, leaderboard_entries, PipelineVars, DeployVars >>

\* update_leaderboard_rankings, lines 324-330: one UPDATE of the loop
RankingsUpdate(r) ==
    /\ Running(r, "finalize_assessment_submission", "update_rank")
    /\ LET call == requests[r]
       IN /\ leaderboard_entries' =
                 [leaderboard_entries EXCEPT ![call.entries[call.rank]].rank_position = call.rank]
          /\ requests' = Put(r, [call EXCEPT !.rank = call.rank + 1,
                                             !.pc = IF call.rank = Len(call.entries)
                                                    THEN "return" ELSE "update_rank"])
    /\ UNCHANGED << submissions, question_responses, PipelineVars, DeployVars >>

\* finalize_assessment_submission, line 254: read the submission back and return it
FinalizeReturn(r) ==
    /\ Running(r, "finalize_assessment_submission", "return")
    /\ requests' = Drop(r)
    /\ UNCHANGED << submissions, question_responses, leaderboard_entries, PipelineVars, DeployVars >>

FinalizeNext(r) ==
    \/ \E submission_id \in 1..MaxSubmissions : finalize_assessment_submission(r, submission_id)
    \/ FinalizeUpdateSubmission(r)
    \/ LeaderboardGetSubmission(r)
    \/ LeaderboardSelectEntry(r)
    \/ LeaderboardWriteEntry(r)
    \/ RankingsSelect(r)
    \/ RankingsUpdate(r)
    \/ FinalizeReturn(r)

ResponseNext ==
    \/ \E submission_id \in 1..MaxSubmissions, q \in Questions :
           submit_question_response(submission_id, q)
    \/ \E response_id \in DOMAIN question_responses, score \in Scores, max_score \in MaxScores :
           grade(response_id, score, max_score)

\* The assessment routes serving one request at a time
SerialNext == StartNext("r1", Clients) \/ FinalizeNext("r1") \/ ResponseNext

\* The assessment routes serving the requests of one user at the same time
ConcurrentNext == \E r \in Requests : StartNext(r, {<< "u1", "c1" >>}) \/ FinalizeNext(r)

\* The assessment store, one call after the other
SerialSpec ==
    /\ InitEmpty({AnyOutline}, 0, 0, {TRUE})
    /\ [][SerialNext]_vars

\* The assessment store under concurrent requests
ConcurrentSpec ==
    /\ InitEmpty({AnyOutline}, 0, 0, {TRUE})
    /\ [][ConcurrentNext]_vars

PriorSubmissions(i) ==
    {j \in SubmissionsOf(submissions[i].user_id, submissions[i].task_id) : j < i}

\* C27: for every user and task at most one submission is in progress, and
\* every submission's attempt_number is one more than the number of
\* submissions the user made for the task before it
C27_OneInProgress ==
    /\ \A u \in Users, t \in AssessmentTasks : Cardinality(InProgressOf(u, t)) <= 1
    /\ \A i \in DOMAIN submissions :
           submissions[i].attempt_number = Cardinality(PriorSubmissions(i)) + 1

RankingsCompleted(r) ==
    /\ Running(r, "finalize_assessment_submission", "return")
    /\ Len(requests[r].entries) > 0

RankedBy(r) == {requests[r].entries[k] : k \in DOMAIN requests[r].entries}

\* C28: when update_leaderboard_rankings has completed, with no other call
\* in between, the rank_position values of the entries it selected are
\* exactly 1..n without duplicates, and an entry with a strictly higher
\* percentage has a strictly smaller rank_position
C28_DenseRanks ==
    \A r \in DOMAIN requests :
        RankingsCompleted(r) =>
            /\ {leaderboard_entries[i].rank_position : i \in RankedBy(r)}
                   = 1..Cardinality(RankedBy(r))
            /\ \A i, j \in RankedBy(r) :
                   i # j => leaderboard_entries[i].rank_position
                                # leaderboard_entries[j].rank_position
            /\ \A i, j \in RankedBy(r) :
                   leaderboard_entries[i].percentage > leaderboard_entries[j].percentage
                       => leaderboard_entries[i].rank_position
                              < leaderboard_entries[j].rank_position

\* Two entries were ranked, and the one created later has the higher percentage
C28_Witness ==
    \E r \in DOMAIN requests :
        /\ RankingsCompleted(r)
        /\ \E i, j \in RankedBy(r) :
               /\ i < j
               /\ leaderboard_entries[i].percentage < leaderboard_entries[j].percentage
               /\ leaderboard_entries[j].rank_position = 1

WritingEntry(r) == Running(r, "finalize_assessment_submission", "write_entry")

\* C29: over the calls of finalize_assessment_submission, one after the
\* other, a (user, task) has at most one leaderboard entry, an entry's
\* percentage and score never decrease, and its submission_id changes only
\* to a submission whose percentage is strictly higher than the stored one
C29_KeepsBest ==
    [][/\ \A u \in Users, t \in AssessmentTasks : Cardinality(EntriesOf(u, t)') <= 1
       /\ DOMAIN leaderboard_entries \subseteq DOMAIN leaderboard_entries'
       /\ \A i \in DOMAIN leaderboard_entries :
              /\ leaderboard_entries'[i].percentage >= leaderboard_entries[i].percentage
              /\ leaderboard_entries'[i].score >= leaderboard_entries[i].score
              /\ leaderboard_entries'[i].submission_id # leaderboard_entries[i].submission_id
                     => \E r \in DOMAIN requests :
                            /\ WritingEntry(r)
                            /\ leaderboard_entries'[i].submission_id = requests[r].submission_id
                            /\ submissions[requests[r].submission_id].percentage_score
                                   > leaderboard_entries[i].percentage
      ]_vars

\* An entry was updated for a later submission of its user that did no
\* better, and still names the earlier submission
C29_Witness ==
    \E r \in DOMAIN requests :
        /\ Running(r, "finalize_assessment_submission", "select_rankings")
        /\ requests[r].existing # 0
        /\ leaderboard_entries[requests[r].existing].submission_id < requests[r].submission_id
        /\ leaderboard_entries[requests[r].existing].percentage
               > requests[r].submission.percentage_score
        /\ requests[r].submission.percentage_score > 0

(***************************************************************************)
(* Course links of src/api/db/role_assessment.py: save_assessment,         *)
(* deploy_assessment_to_course and undeploy_assessment_from_course over    *)
(* the role_assessments and course_assessments tables                      *)
(***************************************************************************)
\* The assessment_id values and the courses of the requests
RoleAssessmentIds == {"a1", "a2"}
Courses == {"k1", "k2"}

Returned(op, assessment, course, value) ==
    [op |-> op, assessment_id |-> assessment, course_id |-> course, value |-> value]

\* save_assessment: a new assessment has is_published = FALSE (the column's
\* default); saving it again leaves is_published as it is
save_assessment(assessment) ==
    /\ role_assessments' =
           IF assessment \in DOMAIN role_assessments
           THEN role_assessments
           ELSE [a \in DOMAIN role_assessments \cup {assessment} |->
                    IF a = assessment THEN [is_published |-> FALSE] ELSE role_assessments[a]]
    /\ returned' = Returned("save_assessment", assessment, "None", assessment)
    /\ UNCHANGED << course_assessments, AssessmentVars, PipelineVars >>

\* SELECT id, is_deployed ... WHERE course_id = ? AND assessment_id = ?
LinksOf(course, assessment) ==
    {i \in DOMAIN course_assessments :
        /\ course_assessments[i].course_id = course
        /\ course_assessments[i].assessment_id = assessment}

\* UNIQUE(course_id, assessment_id): an INSERT of a pair the table holds fails
ViolatesUnique(course, assessment) == LinksOf(course, assessment) # {}

\* (max_position[0] or 0) + 1 if max_position else 1
NextPosition(course) ==
    LET positions == {course_assessments[i].position :
                          i \in {j \in DOMAIN course_assessments :
                                     course_assessments[j].course_id = course}}
    IN IF positions = {} THEN 1
       ELSE (CHOOSE p \in positions : \A q \in positions : p >= q) + 1

\* existing[1]
AlreadyDeployed_Ignored(existing) == FALSE
AlreadyDeployed(existing) == course_assessments[existing].is_deployed

\* UPDATE role_assessments SET is_published = TRUE WHERE assessment_id = ?
Published(assessment) ==
    [a \in DOMAIN role_assessments |->
        IF a = assessment THEN [role_assessments[a] EXCEPT !.is_published = TRUE]
        ELSE role_assessments[a]]

\* deploy_assessment_to_course, for an assessment that was saved
deploy_assessment_to_course(assessment, course, user) ==
    /\ assessment \in DOMAIN role_assessments
    /\ LET links == LinksOf(course, assessment)
       IN IF links # {}
          THEN \E existing \in links :
                   IF AlreadyDeployed(existing)
                   THEN /\ returned' = Returned("deploy", assessment, course, FALSE)
                        /\ UNCHANGED << course_assessments, role_assessments >>
                   ELSE /\ course_assessments' =
                               [i \in DOMAIN course_assessments |->
                                   IF i \in links
                                   THEN [course_assessments[i] EXCEPT !.is_deployed = TRUE,
                                                                      !.deployed_by = user]
                                   ELSE course_assessments[i]]
                        /\ role_assessments' = Published(assessment)
                        /\ returned' = Returned("deploy", assessment, course, TRUE)
          ELSE IF ViolatesUnique(course, assessment)
               THEN /\ returned' = Returned("deploy", assessment, course, "IntegrityError")
                    /\ UNCHANGED << course_assessments, role_assessments >>
               ELSE /\ course_assessments' =
                           Append(course_assessments,
                                  [course_id |-> course, assessment_id |-> assessment,
                                   is_deployed |-> TRUE, deployed_by |-> user,
                                   position |-> NextPosition(course)])
                    /\ role_assessments' = Published(assessment)
                    /\ returned' = Returned("deploy", assessment, course, TRUE)
    /\ UNCHANGED << AssessmentVars, PipelineVars >>

\* undeploy_assessment_from_course
undeploy_assessment_from_course(assessment, course) ==
    /\ course_assessments' =
           [i \in DOMAIN course_assessments |->
               IF i \in LinksOf(course, assessment)
               THEN [course_assessments[i] EXCEPT !.is_deployed = FALSE]
               ELSE course_assessments[i]]
    /\ returned' = Returned("undeploy", assessment, course, TRUE)
    /\ UNCHANGED << role_assessments, AssessmentVars, PipelineVars >>

DeployNext ==
    \/ \E assessment \in RoleAssessmentIds : save_assessment(assessment)
    \/ \E assessment \in RoleAssessmentIds, course \in Courses, user \in Users :
           deploy_assessment_to_course(assessment, course, user)
    \/ \E assessment \in RoleAssessmentIds, course \in Courses :
           undeploy_assessment_from_course(assessment, course)

\* The role-assessment routes, one call after the other
DeploySpec ==
    /\ InitEmpty({AnyOutline}, 0, 0, {TRUE})
    /\ [][DeployNext]_vars

IsDeployedTo(course, assessment) ==
    \E i \in LinksOf(course, assessment) : course_assessments[i].is_deployed

====
